---- MODULE Spec2Model ----
(***************************************************************************)
(* A model of the FLICS dashboard (app/main.py): the widgets' values, the  *)
(* in-memory ROI / vector selection, and the dataset file db.nc that       *)
(* save() keeps per base directory.                                        *)
(*                                                                         *)
(* Strings are sequences of one-character strings, so that slicing         *)
(* (path[len(new):]) and str.endswith are computed as the code computes    *)
(* them. An image frame is a tuple of pixel values; a 3-D image is a       *)
(* sequence of frames. Numbers are naturals; not-a-number is a value       *)
(* outside them.                                                           *)
(***************************************************************************)
EXTENDS Integers, Sequences, FiniteSets, TLC

(***************************************************************************)
(* Bounds of the model.                                                    *)
(***************************************************************************)
\* frames in each modelled 3-D recording
NumFrames == 2
\* items in the small ROI / vector selections the user draws
SmallSel == 2

(***************************************************************************)
(* Program constants.                                                      *)
(***************************************************************************)
\* np.full((50, 4), np.nan): rows of a coordinate table
TableRows == 50
\* np.full((50, 4), np.nan): columns of a coordinate table
TableCols == 4
\* np.nan, a value outside the naturals used for coordinates
NaN == -1
\* len(image.shape) of a recording that has a time axis
STACK_NDIM == 3

IMAGE_EXT == <<".", "t", "i", "f">>
Placeholder == <<"-", "-", "-">>
EnterPath == <<"E", "n", "t", "e", "r", " ", "p", "a", "t", "h", ".", ".", ".">>
DB_NAME == <<"d", "b", ".", "n", "c">>
\* Python's None, as a path and as an image
NoPath == <<"None">>
NoneImage == <<"None">>

(***************************************************************************)
(* String helpers: str.endswith, s[n:], os.path.join.                      *)
(***************************************************************************)
EndsWith(s, suffix) ==
    /\ Len(suffix) <= Len(s)
    /\ SubSeq(s, Len(s) - Len(suffix) + 1, Len(s)) = suffix

DropPrefix(s, n) == SubSeq(s, n + 1, Len(s))

PathJoin(root, name) ==
    IF root # <<>> /\ root[Len(root)] = "/"
    THEN root \o name
    ELSE root \o <<"/">> \o name

(***************************************************************************)
(* The directory trees. A directory lists its files and its                *)
(* sub-directories in the order the operating system returns them.         *)
(***************************************************************************)
Pixel(seed, t, k) == (seed + t * (k + 1)) % 4

\* a frame of two pixels
Frame(seed, t) == <<Pixel(seed, t, 1), Pixel(seed, t, 2)>>

Stack(seed) == [ndim |-> STACK_NDIM, data |-> [t \in 1..NumFrames |-> Frame(seed, t)]]

Still(seed) == [ndim |-> STACK_NDIM - 1, data |-> Frame(seed, 1)]

\* ScanImage metadata; linePeriod is 1 / linePeriodInv seconds
Meta(frameRate, lineRate) ==
    <<[scanFrameRate |-> frameRate, linePeriodInv |-> lineRate]>>

NoMeta == <<>>

TifA == <<"a">> \o IMAGE_EXT
TifB == <<"b">> \o IMAGE_EXT
TifC == <<"c">> \o IMAGE_EXT
Notes == <<"n", ".", "t", "x", "t">>

DirX(seed) ==
    [files |-> <<[name |-> TifA, image |-> Stack(seed), meta |-> Meta(30 + seed, 12)]>>,
     dirs |-> <<>>]

DirY ==
    [files |-> <<[name |-> TifC, image |-> Stack(3), meta |-> NoMeta]>>,
     dirs |-> <<[name |-> <<"x">>, dir |-> DirX(2)]>>]

\* /d/b.tif, /d/n.txt, /d/x/a.tif, /d/y/c.tif, /d/y/x/a.tif, with the
\* sub-directories x and y listed in either order
DirD(xFirst) ==
    [files |-> <<[name |-> TifB, image |-> Still(1), meta |-> Meta(7, 5)],
                 [name |-> Notes, image |-> NoneImage, meta |-> NoMeta]>>,
     dirs |-> IF xFirst
              THEN <<[name |-> <<"x">>, dir |-> DirX(1)], [name |-> <<"y">>, dir |-> DirY]>>
              ELSE <<[name |-> <<"y">>, dir |-> DirY], [name |-> <<"x">>, dir |-> DirX(1)]>>]

\* a tree that holds no recording: /d/n.txt, /d/x/n.txt
DirNoTif ==
    [files |-> <<[name |-> Notes, image |-> NoneImage, meta |-> NoMeta]>>,
     dirs |-> <<[name |-> <<"x">>,
                 dir |-> [files |-> <<[name |-> Notes, image |-> NoneImage,
                                       meta |-> NoMeta]>>,
                          dirs |-> <<>>]]>>]

PathD == <<"/", "d">>
PathX == <<"/", "x">>

\* the values the user types into the base-directory input: the one
\* directory there is, and a path that is no directory
BaseInputs == {PathD, PathX}

FileSystems == {PathD :> DirD(TRUE), PathD :> DirD(FALSE), PathD :> DirNoTif}

VARIABLES
    fs,                   \* the directory trees on disk (never written by the program)
    disk,                 \* the dataset file of each directory, by its path
    base_dir_input,       \* base_dir_input.value
    image_select_options, \* image_select.options
    image_select_value,   \* image_select.value
    raw_source,           \* raw_source.data
    time_slider,          \* time_slider.end, .disabled, .value
    image_source,         \* image_source.data['image']
    roi_source,           \* roi_source.data
    vector_source,        \* vector_source.data
    toggle_2d,            \* toggle_2d.active
    line_rate_input,      \* line_rate_input.value
    frame_rate_input,     \* frame_rate_input.value
    pc,                   \* where save() stands: idle, gathered, merged, removed
    data_vars,            \* save()'s local data_vars
    db,                   \* save()'s local db, the dataset about to be written
    db_open,              \* the dataset as save() opened it
    outcome,              \* how the last handler ended: raised, created, appended, updated,
                          \* restored (a stored selection was drawn), crashed
    saved                 \* history: per dataset file, the selection last saved under each path

vars == <<fs, disk, base_dir_input, image_select_options, image_select_value,
          raw_source, time_slider, image_source, roi_source, vector_source,
          toggle_2d, line_rate_input, frame_rate_input, pc, data_vars, db,
          db_open, outcome, saved>>

widgets == <<base_dir_input, image_select_options, image_select_value,
             raw_source, time_slider, image_source, roi_source, vector_source,
             toggle_2d, line_rate_input, frame_rate_input>>

(***************************************************************************)
(* File discovery.                                                         *)
(***************************************************************************)
IsDir(p) == p \in DOMAIN fs

RECURSIVE Walk(_, _), WalkDirs(_, _, _)
\* os.walk, top-down: a directory's files, then each sub-directory in turn
Walk(root, dir) ==
    [i \in 1..Len(dir.files) |->
        [root |-> root, name |-> dir.files[i].name, file |-> dir.files[i]]]
    \o WalkDirs(root, dir.dirs, 1)

WalkDirs(root, subdirs, i) ==
    IF i > Len(subdirs)
    THEN <<>>
    ELSE Walk(PathJoin(root, subdirs[i].name), subdirs[i].dir)
         \o WalkDirs(root, subdirs, i + 1)

OsWalk(top) == IF IsDir(top) THEN Walk(top, fs[top]) ELSE <<>>

HasExt(entry) == EndsWith(entry.name, IMAGE_EXT)

get_file_paths(base) ==
    LET hits == SelectSeq(OsWalk(base), HasExt)
    IN  [i \in 1..Len(hits) |-> PathJoin(hits[i].root, hits[i].name)]

get_full_path(base, relative_path) ==
    LET image_paths == get_file_paths(base)
        hits == SelectSeq(image_paths, LAMBDA f : EndsWith(f, relative_path))
    IN  IF hits = <<>> THEN NoPath ELSE hits[1]

get_db_path(base) == IF IsDir(base) THEN PathJoin(base, DB_NAME) ELSE NoPath

DbPaths == {PathJoin(d, DB_NAME) : d \in DOMAIN fs}

\* the file at a path found by the walk: its pixels and its metadata
ReadFile(base, path) ==
    LET all == OsWalk(base)
        i == CHOOSE i \in 1..Len(all) : PathJoin(all[i].root, all[i].name) = path
    IN  all[i].file

(***************************************************************************)
(* The dataset file.                                                       *)
(***************************************************************************)
NoFile == [exists |-> FALSE, scalar |-> FALSE, recs |-> <<>>]

\* a slip: the membership test never finds the path
PathInNever(path, dataset) == FALSE

\* path in db['path'].values
PathIn(path, dataset) ==
    \E i \in 1..Len(dataset.recs) : dataset.recs[i].path = path

RecordAt(path, dataset) ==
    dataset.recs[CHOOSE i \in 1..Len(dataset.recs) : dataset.recs[i].path = path]

(***************************************************************************)
(* The current image.                                                      *)
(***************************************************************************)
HasImage == raw_source.image # <<>>

get_current_image == raw_source.image[1]

IsStack(image) == image.ndim = STACK_NDIM

PixelMax(a, b) == IF a >= b THEN a ELSE b

RECURSIVE MaxOverTime(_, _)
MaxOverTime(frames, t) ==
    IF t = 1
    THEN frames[1]
    ELSE LET rest == MaxOverTime(frames, t - 1)
         IN  [k \in 1..Len(frames[t]) |-> PixelMax(rest[k], frames[t][k])]

calculate_2d_projection(image) ==
    IF IsStack(image)
    THEN MaxOverTime(image.data, Len(image.data))
    ELSE NoneImage

get_current_frame(image, t) ==
    IF IsStack(image) THEN image.data[t + 1] ELSE image.data

(***************************************************************************)
(* Numbers and their text.                                                 *)
(***************************************************************************)
Digit(n) == <<"0", "1", "2", "3", "4", "5", "6", "7", "8", "9">>[n + 1]

DigitValue(c) == CHOOSE n \in 0..9 : Digit(n) = c

IsDigit(c) == \E n \in 0..9 : Digit(n) = c

RECURSIVE Digits(_)
Digits(n) == IF n < 10 THEN <<Digit(n)>> ELSE Digits(n \div 10) \o <<Digit(n % 10)>>

\* str() of a float with no fraction
Str(n) == Digits(n) \o <<".", "0">>

RECURSIVE IntOf(_)
IntOf(s) ==
    IF s = <<>> THEN 0
    ELSE 10 * IntOf(SubSeq(s, 1, Len(s) - 1)) + DigitValue(s[Len(s)])

AllDigits(s) == s # <<>> /\ \A i \in 1..Len(s) : IsDigit(s[i])

\* float() accepts digits, optionally followed by ".0"
IntegerPart(s) ==
    IF EndsWith(s, <<".", "0">>) THEN SubSeq(s, 1, Len(s) - 2) ELSE s

FloatOk(s) == AllDigits(IntegerPart(s))

Float(s) == IntOf(IntegerPart(s))

(***************************************************************************)
(* Metadata readouts.                                                      *)
(***************************************************************************)
get_current_metadata(raw) == raw.meta

get_frame_rate(raw) ==
    IF get_current_metadata(raw) # <<>> THEN raw.meta[1].scanFrameRate ELSE 0

get_line_rate(raw) ==
    IF get_current_metadata(raw) # <<>> THEN raw.meta[1].linePeriodInv ELSE 0

\* get_string: a missing or zero value reads '---'
get_string(value) == IF value # 0 THEN Str(value) ELSE Placeholder

(***************************************************************************)
(* The coordinate tables.                                                  *)
(***************************************************************************)
NaNRow == [c \in 1..TableCols |-> NaN]

get_roi_params(values, index) ==
    <<values.x[index], values.y[index], values.width[index], values.height[index]>>

get_vector_params(values, index) ==
    <<values.xs[index][1], values.xs[index][2], values.ys[index][1], values.ys[index][2]>>

\* roi_data[index, :] = ... raises IndexError past the last row
RoiDataFits(values) == Len(values.x) <= TableRows

VectorDataFits(values) == Len(values.xs) <= TableRows

\* a slip: the last ROI is left out (range(n_rois - 1))
get_roi_data_by_index_short(values) ==
    [row \in 1..TableRows |->
        IF row < Len(values.x) THEN get_roi_params(values, row) ELSE NaNRow]

get_roi_data_by_index(values) ==
    [row \in 1..TableRows |->
        IF row <= Len(values.x) THEN get_roi_params(values, row) ELSE NaNRow]

get_vector_data_by_index(values) ==
    [row \in 1..TableRows |->
        IF row <= Len(values.xs) THEN get_vector_params(values, row) ELSE NaNRow]

IsNaNRow(row) == \E c \in 1..Len(row) : row[c] = NaN

\* roi_data[~np.isnan(roi_data).any(axis=1)]
DropNaNRows(table) == SelectSeq(table, LAMBDA row : ~IsNaNRow(row))

draw_existing_rois(roi_data) ==
    LET rows == DropNaNRows(roi_data)
    IN  [x      |-> [i \in 1..Len(rows) |-> rows[i][1]],
         y      |-> [i \in 1..Len(rows) |-> rows[i][2]],
         width  |-> [i \in 1..Len(rows) |-> rows[i][3]],
         height |-> [i \in 1..Len(rows) |-> rows[i][4]]]

\* a slip: the columns are read as [x_start, y_start, x_end, y_end]
draw_existing_vectors_mixed(vector_data) ==
    LET rows == DropNaNRows(vector_data)
    IN  [xs |-> [i \in 1..Len(rows) |-> <<rows[i][1], rows[i][3]>>],
         ys |-> [i \in 1..Len(rows) |-> <<rows[i][2], rows[i][4]>>]]

draw_existing_vectors(vector_data) ==
    LET rows == DropNaNRows(vector_data)
    IN  [xs |-> [i \in 1..Len(rows) |-> <<rows[i][1], rows[i][2]>>],
         ys |-> [i \in 1..Len(rows) |-> <<rows[i][3], rows[i][4]>>]]

NoRois == [x |-> <<>>, y |-> <<>>, width |-> <<>>, height |-> <<>>]

NoVectors == [xs |-> <<>>, ys |-> <<>>]

(***************************************************************************)
(* save(): gathering the in-memory data.                                   *)
(***************************************************************************)
NoData == [projection |-> NoneImage, line_rate |-> 0, frame_rate |-> 0,
           roi_data |-> <<>>, vector_data |-> <<>>,
           corr_calc_state |-> 0, fitting_state |-> 0]

\* a slip: tables that grow with the selection, so nothing overflows
GatherRaisesNoOverflow ==
    \/ ~HasImage
    \/ ~FloatOk(line_rate_input)
    \/ ~FloatOk(frame_rate_input)

\* create_data_dict raises: no image loaded, a readout that is no number,
\* or a selection that does not fit its table
GatherRaises ==
    \/ ~HasImage
    \/ ~FloatOk(line_rate_input)
    \/ ~FloatOk(frame_rate_input)
    \/ ~RoiDataFits(roi_source)
    \/ ~VectorDataFits(vector_source)

create_data_dict ==
    [projection      |-> calculate_2d_projection(get_current_image),
     line_rate       |-> Float(line_rate_input),
     frame_rate      |-> Float(frame_rate_input),
     roi_data        |-> get_roi_data_by_index(roi_source),
     vector_data     |-> get_vector_data_by_index(vector_source),
     corr_calc_state |-> 0,
     fitting_state   |-> 0]

\* xr.Dataset(data_vars, create_coords_dict(path)): one record, keyed by path
NewRecord(path, values) ==
    [path            |-> path,
     projection      |-> values.projection,
     line_rate       |-> values.line_rate,
     frame_rate      |-> values.frame_rate,
     roi_data        |-> values.roi_data,
     vector_data     |-> values.vector_data,
     corr_calc_state |-> values.corr_calc_state,
     fitting_state   |-> values.fitting_state]

\* the existing-path loop: every field that differs is assigned
UpdateField(stored, value) == IF stored # value THEN value ELSE stored

UpdateRecord(rec, values) ==
    [path            |-> rec.path,
     projection      |-> UpdateField(rec.projection, values.projection),
     line_rate       |-> UpdateField(rec.line_rate, values.line_rate),
     frame_rate      |-> UpdateField(rec.frame_rate, values.frame_rate),
     roi_data        |-> UpdateField(rec.roi_data, values.roi_data),
     vector_data     |-> UpdateField(rec.vector_data, values.vector_data),
     corr_calc_state |-> UpdateField(rec.corr_calc_state, values.corr_calc_state),
     fitting_state   |-> UpdateField(rec.fitting_state, values.fitting_state)]

\* a slip: the fields are assigned for every path, not through .loc
UpdateExistingEveryPath(dataset, path, values) ==
    [exists |-> TRUE,
     scalar |-> dataset.scalar,
     recs   |-> [i \in 1..Len(dataset.recs) |->
                    UpdateRecord(dataset.recs[i], values)]]

\* lines 491-499: the record of path is updated, every other one is kept
UpdateExisting(dataset, path, values) ==
    [exists |-> TRUE,
     scalar |-> dataset.scalar,
     recs   |-> [i \in 1..Len(dataset.recs) |->
                    IF dataset.recs[i].path = path
                    THEN UpdateRecord(dataset.recs[i], values)
                    ELSE dataset.recs[i]]]

\* a slip: the new dataset is written in place of the concatenation
ConcatNewAlone(dataset, path, values) ==
    [exists |-> TRUE, scalar |-> FALSE, recs |-> <<NewRecord(path, values)>>]

\* xr.concat([db, ds], dim='path')
ConcatNew(dataset, path, values) ==
    [exists |-> TRUE,
     scalar |-> FALSE,
     recs   |-> Append(dataset.recs, NewRecord(path, values))]

\* xr.Dataset(data_vars, coords) written to a directory that had no file
CreateNew(path, values) ==
    [exists |-> TRUE, scalar |-> TRUE, recs |-> <<NewRecord(path, values)>>]

(***************************************************************************)
(* What the user can draw and type.                                        *)
(***************************************************************************)
RoiSelection(n, broken) ==
    [x      |-> [i \in 1..n |-> IF broken /\ i = 1 THEN NaN ELSE i],
     y      |-> [i \in 1..n |-> i + 1],
     width  |-> [i \in 1..n |-> 2 * i],
     height |-> [i \in 1..n |-> 3]]

VectorSelection(n) ==
    [xs |-> [i \in 1..n |-> <<i, i + 2>>],
     ys |-> [i \in 1..n |-> <<2 * i, 1>>]]

RoiChoices ==
    {RoiSelection(n, FALSE) : n \in {0, TableRows, TableRows + 1}}
    \cup {RoiSelection(SmallSel, TRUE)}

VectorChoices == {VectorSelection(n) : n \in {0, SmallSel, TableRows + 1}}

(***************************************************************************)
(* Init: the module-level widget values, and no dataset file anywhere.     *)
(***************************************************************************)
NoRaw == [image |-> <<>>, meta |-> <<>>]

InitWidgets ==
    /\ base_dir_input = EnterPath
    /\ image_select_options = <<Placeholder>>
    /\ image_select_value = Placeholder
    /\ raw_source = NoRaw
    /\ time_slider = [end |-> 1, disabled |-> FALSE, value |-> 0]
    /\ image_source = <<>>
    /\ roi_source = NoRois
    /\ vector_source = NoVectors
    /\ toggle_2d = FALSE
    /\ line_rate_input = Placeholder
    /\ frame_rate_input = Placeholder

Init ==
    /\ fs \in FileSystems
    /\ disk = [p \in DbPaths |-> NoFile]
    /\ InitWidgets
    /\ pc = "idle"
    /\ data_vars = NoData
    /\ db = NoFile
    /\ db_open = NoFile
    /\ outcome = ""
    /\ saved = [p \in DbPaths |-> {}]

\* a handler other than save() ran: save()'s locals are gone
NotSaving ==
    /\ pc = "idle"
    /\ pc' = "idle"
    /\ data_vars' = NoData
    /\ db' = NoFile
    /\ db_open' = NoFile
    /\ UNCHANGED <<fs, disk, saved>>

(***************************************************************************)
(* update_plot and select_image.                                           *)
(***************************************************************************)
\* line 183: the dataset file holds a record for the image
Restores(base, value) ==
    /\ IsDir(base)
    /\ disk[get_db_path(base)].exists
    /\ PathIn(get_full_path(base, value), disk[get_db_path(base)])

\* update_plot ran to its end: whether it drew a stored selection
Plotted(base, value) ==
    outcome' = IF Restores(base, value) THEN "restored" ELSE ""

\* lines 179-188: the selection stored for the image, or an empty one
StoredSelection(base, value) ==
    LET path == get_full_path(base, value)
        file == disk[get_db_path(base)]
    IN  IF file.exists /\ PathIn(path, file)
        THEN [rois    |-> draw_existing_rois(RecordAt(path, file).roi_data),
              vectors |-> draw_existing_vectors(RecordAt(path, file).vector_data)]
        ELSE [rois |-> NoRois, vectors |-> NoVectors]

\* update_plot with an image loaded; os.path.isfile(None) raises after the
\* frame is shown
update_plot(base, value, image, t) ==
    /\ image_source' = <<get_current_frame(image, t)>>
    /\ IF IsDir(base)
       THEN /\ roi_source' = StoredSelection(base, value).rois
            /\ vector_source' = StoredSelection(base, value).vectors
       ELSE UNCHANGED <<roi_source, vector_source>>

update_time_slider(image) ==
    time_slider' =
        IF IsStack(image)
        THEN [end |-> Len(image.data) - 1, disabled |-> FALSE, value |-> 0]
        ELSE [end |-> 1, disabled |-> TRUE, value |-> 0]

update_parameter_widgets(raw) ==
    /\ line_rate_input' = get_string(get_line_rate(raw))
    /\ frame_rate_input' = get_string(get_frame_rate(raw))

\* select_image(attr, old, new); reading the file of no path raises
select_image(base, new) ==
    LET path == get_full_path(base, new)
    IN  IF path = NoPath
        THEN /\ outcome' = ""
             /\ UNCHANGED <<raw_source, time_slider, image_source, roi_source,
                            vector_source, line_rate_input, frame_rate_input>>
        ELSE LET file == ReadFile(base, path)
                 raw == [image |-> <<file.image>>, meta |-> file.meta]
             IN  /\ raw_source' = raw
                 /\ update_time_slider(file.image)
                 /\ update_plot(base, new, file.image, 0)
                 /\ Plotted(base, new)
                 /\ update_parameter_widgets(raw)

(***************************************************************************)
(* The handlers of the widgets.                                            *)
(***************************************************************************)
\* a slip: the base directory is not removed from the paths
RelativePathsUnstripped(new, image_paths) == image_paths

\* line 45: [path[len(new):] for path in image_paths]
RelativePaths(new, image_paths) ==
    [i \in 1..Len(image_paths) |-> DropPrefix(image_paths[i], Len(new))]

\* base_dir_input.on_change('value', update_image_select)
update_image_select(new) ==
    /\ NotSaving
    /\ new # base_dir_input
    /\ base_dir_input' = new
    /\ UNCHANGED toggle_2d
    /\ LET image_paths == get_file_paths(new)
           relative_paths == RelativePaths(new, image_paths)
       IN  IF IsDir(new) /\ relative_paths # <<>>
           THEN /\ image_select_options' = relative_paths
                /\ image_select_value' = relative_paths[1]
                /\ IF relative_paths[1] # image_select_value
                   THEN select_image(new, relative_paths[1])
                   ELSE /\ outcome' = ""
                        /\ UNCHANGED <<raw_source, time_slider, image_source,
                                       roi_source, vector_source, line_rate_input,
                                       frame_rate_input>>
           ELSE /\ image_select_options' = <<Placeholder>>
                /\ outcome' = ""
                /\ UNCHANGED <<image_select_value, raw_source, time_slider,
                               image_source, roi_source, vector_source,
                               line_rate_input, frame_rate_input>>

\* the user picks an option: image_select.on_change('value', select_image)
PickImage(new) ==
    /\ NotSaving
    /\ new # image_select_value
    /\ image_select_value' = new
    /\ UNCHANGED <<base_dir_input, image_select_options, toggle_2d>>
    /\ select_image(base_dir_input, new)

\* time_slider.on_change('value', update_frame)
update_frame(new) ==
    /\ NotSaving
    /\ ~time_slider.disabled
    /\ new # time_slider.value
    /\ time_slider' = [time_slider EXCEPT !.value = new]
    /\ outcome' = ""
    /\ IF HasImage /\ IsStack(get_current_image) /\ new + 1 <= Len(get_current_image.data)
       THEN image_source' = <<get_current_image.data[new + 1]>>
       ELSE UNCHANGED image_source
    /\ UNCHANGED <<base_dir_input, image_select_options, image_select_value,
                   raw_source, roi_source, vector_source, toggle_2d,
                   line_rate_input, frame_rate_input>>

\* toggle_2d.on_change('active', show_2d_projection)
show_2d_projection(new) ==
    /\ NotSaving
    /\ new # toggle_2d
    /\ toggle_2d' = new
    /\ time_slider' = [time_slider EXCEPT !.disabled = new]
    /\ IF ~HasImage
       THEN /\ outcome' = ""
            /\ UNCHANGED <<image_source, roi_source, vector_source>>
       ELSE IF new
            THEN /\ image_source' = <<calculate_2d_projection(get_current_image)>>
                 /\ outcome' = ""
                 /\ UNCHANGED <<roi_source, vector_source>>
            ELSE /\ update_plot(base_dir_input, image_select_value,
                                get_current_image, time_slider.value)
                 /\ Plotted(base_dir_input, image_select_value)
    /\ UNCHANGED <<base_dir_input, image_select_options, image_select_value,
                   raw_source, line_rate_input, frame_rate_input>>

\* the box-edit tool rewrites roi_source.data
DrawRois(selection) ==
    /\ NotSaving
    /\ selection # roi_source
    /\ roi_source' = selection
    /\ outcome' = ""
    /\ UNCHANGED <<base_dir_input, image_select_options, image_select_value,
                   raw_source, time_slider, image_source, vector_source,
                   toggle_2d, line_rate_input, frame_rate_input>>

\* the line-edit tool rewrites vector_source.data
DrawVectors(selection) ==
    /\ NotSaving
    /\ selection # vector_source
    /\ vector_source' = selection
    /\ outcome' = ""
    /\ UNCHANGED <<base_dir_input, image_select_options, image_select_value,
                   raw_source, time_slider, image_source, roi_source,
                   toggle_2d, line_rate_input, frame_rate_input>>

(***************************************************************************)
(* save(), step by step: the file operations are separate steps, so that   *)
(* a crash between them is a state of the model.                           *)
(***************************************************************************)
SavePath == get_full_path(base_dir_input, image_select_value)

SaveDbPath == get_db_path(base_dir_input)

\* the handler ends in an exception: nothing is kept of its locals
Raise ==
    /\ pc' = "idle"
    /\ data_vars' = NoData
    /\ db' = NoFile
    /\ db_open' = NoFile
    /\ outcome' = "raised"
    /\ UNCHANGED <<fs, disk, widgets, saved>>

\* the handler ends normally, having written dataset to the file at db_path
Written(db_path, dataset, opened, how) ==
    /\ disk' = [disk EXCEPT ![db_path] = dataset]
    /\ pc' = "idle"
    /\ data_vars' = NoData
    /\ db' = NoFile
    /\ db_open' = opened
    /\ outcome' = how
    /\ saved' = [saved EXCEPT ![db_path] =
                    {e \in @ : e.path # SavePath}
                    \cup {[path |-> SavePath, rois |-> roi_source,
                           vectors |-> vector_source]}]
    /\ UNCHANGED <<fs, widgets>>

\* lines 484-485: path = get_full_path(...); data_vars = create_data_dict()
SaveGather ==
    /\ pc = "idle"
    /\ IF GatherRaises
       THEN Raise
       ELSE /\ pc' = "gathered"
            /\ data_vars' = create_data_dict
            /\ db' = NoFile
            /\ db_open' = NoFile
            /\ outcome' = ""
            /\ UNCHANGED <<fs, disk, widgets, saved>>

\* create_coords_dict reads image.shape[2]; a (dims, None) pair is no variable
ShapeRaises == ~IsStack(get_current_image)

\* line 487: os.path.isfile(None) raises; lines 489-510: a still image raises
SaveRaises ==
    /\ pc = "gathered"
    /\ SaveDbPath = NoPath \/ ShapeRaises
    /\ Raise

Merged(dataset, opened) ==
    /\ pc' = "merged"
    /\ db' = dataset
    /\ db_open' = opened
    /\ UNCHANGED <<fs, disk, widgets, data_vars, outcome, saved>>

\* lines 489-499: the path has a record, which is updated in memory
SaveUpdate ==
    /\ pc = "gathered"
    /\ SaveDbPath # NoPath
    /\ ~ShapeRaises
    /\ disk[SaveDbPath].exists
    /\ PathIn(SavePath, disk[SaveDbPath])
    /\ Merged(UpdateExisting(disk[SaveDbPath], SavePath, data_vars), disk[SaveDbPath])

\* lines 493-496: with several records the update assigns a (dims, data)
\* pair through .loc, which the dataset library may refuse
SaveUpdateRefused ==
    /\ pc = "gathered"
    /\ SaveDbPath # NoPath
    /\ ~ShapeRaises
    /\ disk[SaveDbPath].exists
    /\ PathIn(SavePath, disk[SaveDbPath])
    /\ ~disk[SaveDbPath].scalar
    /\ Raise

\* lines 500-504: the path has no record, one is concatenated in memory
SaveConcat ==
    /\ pc = "gathered"
    /\ SaveDbPath # NoPath
    /\ ~ShapeRaises
    /\ disk[SaveDbPath].exists
    /\ ~PathIn(SavePath, disk[SaveDbPath])
    /\ Merged(ConcatNew(disk[SaveDbPath], SavePath, data_vars), disk[SaveDbPath])

\* a save that leaves the old file in place until the new one is written
SaveRemoveKeepsFile ==
    /\ pc = "merged"
    /\ pc' = "removed"
    /\ UNCHANGED <<fs, disk, widgets, data_vars, db, db_open, outcome, saved>>

\* line 505: os.remove(db_path)
SaveRemove ==
    /\ pc = "merged"
    /\ pc' = "removed"
    /\ disk' = [disk EXCEPT ![SaveDbPath] = NoFile]
    /\ UNCHANGED <<fs, widgets, data_vars, db, db_open, outcome, saved>>

\* line 506: db.to_netcdf(get_db_path(), mode='w')
SaveWrite ==
    /\ pc = "removed"
    /\ Written(SaveDbPath, db, db_open,
               IF PathIn(SavePath, db_open) THEN "updated" ELSE "appended")

\* lines 507-510: no dataset file yet, one is written
SaveCreate ==
    /\ pc = "gathered"
    /\ SaveDbPath # NoPath
    /\ ~ShapeRaises
    /\ ~disk[SaveDbPath].exists
    /\ Written(SaveDbPath, CreateNew(SavePath, data_vars), NoFile, "created")

\* The process dies and is started again: the widgets are back at their
\* module-level values, the files are as the dead process left them. The
\* history of a dataset file that is lost starts afresh.
Crash ==
    /\ base_dir_input' = EnterPath
    /\ image_select_options' = <<Placeholder>>
    /\ image_select_value' = Placeholder
    /\ raw_source' = NoRaw
    /\ time_slider' = [end |-> 1, disabled |-> FALSE, value |-> 0]
    /\ image_source' = <<>>
    /\ roi_source' = NoRois
    /\ vector_source' = NoVectors
    /\ toggle_2d' = FALSE
    /\ line_rate_input' = Placeholder
    /\ frame_rate_input' = Placeholder
    /\ pc' = "idle"
    /\ data_vars' = NoData
    /\ db' = NoFile
    /\ db_open' = NoFile
    /\ outcome' = "crashed"
    /\ saved' = [p \in DbPaths |-> IF disk[p].exists THEN saved[p] ELSE {}]
    /\ UNCHANGED <<fs, disk>>

SaveSteps ==
    \/ SaveGather
    \/ SaveRaises
    \/ SaveUpdate
    \/ SaveUpdateRefused
    \/ SaveConcat
    \/ SaveRemove
    \/ SaveWrite
    \/ SaveCreate

\* choosing the directory and an image, drawing, saving, crashing
NextSave ==
    \/ update_image_select(PathD)
    \/ \E i \in 1..Len(image_select_options) : PickImage(image_select_options[i])
    \/ \E selection \in RoiChoices : DrawRois(selection)
    \/ \E selection \in VectorChoices : DrawVectors(selection)
    \/ SaveSteps
    \/ Crash

\* choosing a directory and an image, the slider, the toggle, saving
NextView ==
    \/ \E new \in BaseInputs : update_image_select(new)
    \/ \E i \in 1..Len(image_select_options) : PickImage(image_select_options[i])
    \/ \E new \in 0..time_slider.end : update_frame(new)
    \/ \E new \in BOOLEAN : show_2d_projection(new)
    \/ SaveSteps

Next == NextSave \/ NextView

\* every event
Spec == Init /\ [][Next]_vars

\* the events that change what is saved
SpecSave == Init /\ [][NextSave]_vars

\* the events that change what is shown
SpecView == Init /\ [][NextView]_vars

(***************************************************************************)
(* The claims.                                                             *)
(***************************************************************************)
\* the record save() is to store for the selected image, read off the widgets
ExpectedRecord ==
    [path            |-> SavePath,
     projection      |-> calculate_2d_projection(get_current_image),
     line_rate       |-> Float(line_rate_input),
     frame_rate      |-> Float(frame_rate_input),
     roi_data        |-> get_roi_data_by_index(roi_source),
     vector_data     |-> get_vector_data_by_index(vector_source),
     corr_calc_state |-> 0,
     fitting_state   |-> 0]

PathsOf(dataset) == {dataset.recs[i].path : i \in 1..Len(dataset.recs)}

C2_NewPathSave ==
    outcome = "appended" =>
        LET file == disk[SaveDbPath]
        IN  /\ db_open.exists
            /\ SavePath \notin PathsOf(db_open)
            /\ Len(file.recs) = Len(db_open.recs) + 1
            /\ \A i \in 1..Len(db_open.recs) : file.recs[i] = db_open.recs[i]
            /\ file.recs[Len(file.recs)] = ExpectedRecord
            /\ ExpectedRecord.corr_calc_state = 0
            /\ ExpectedRecord.fitting_state = 0

\* a save has just added a second record, with a selection in it
C2_Witness ==
    /\ outcome = "appended"
    /\ Len(disk[SaveDbPath].recs) = 2
    /\ roi_source # NoRois

\* C3: between handlers, every dataset file holds at most one record per
\* path, and holds a record for a path exactly when a save has completed
\* with that path selected.
C3_KeyedByPath ==
    pc = "idle" =>
        \A p \in DbPaths :
            /\ Cardinality(PathsOf(disk[p])) = Len(disk[p].recs)
            /\ PathsOf(disk[p]) = {e.path : e \in saved[p]}
            /\ disk[p].exists <=> saved[p] # {}

\* three saves have completed for two paths, and the file holds two records
C3_Witness ==
    /\ pc = "idle"
    /\ outcome = "updated"
    /\ Cardinality(saved[SaveDbPath]) = 2
    /\ Len(disk[SaveDbPath].recs) = 2

\* C4: a save over an existing dataset file deletes the file before it
\* writes the new one: there is a state with no dataset file on disk, and a
\* crash in that state leaves the directory without one, the stored
\* records lost.
C4_SaveNotAtomic ==
    [][/\ (pc = "merged" /\ pc' = "removed") =>
              (disk[SaveDbPath].exists /\ ~disk'[SaveDbPath].exists)
       /\ pc = "removed" =>
              /\ ~disk[SaveDbPath].exists
              /\ db_open.recs # <<>>
              /\ outcome' = "crashed" =>
                    (~disk'[SaveDbPath].exists /\ saved'[SaveDbPath] = {})]_vars

\* the file is deleted, the records of the file that was opened are only in memory
C4_Witness ==
    /\ pc = "removed"
    /\ ~disk[SaveDbPath].exists
    /\ Len(db_open.recs) = 2

\* C5: for n <= 50 ROIs (vectors), the gathered table has exactly 50 rows
\* of 4 values, row i holds the i-th ROI's [x, y, width, height] (the i-th
\* vector's [x_start, x_end, y_start, y_end]) for i <= n, in selection
\* order, and every later row holds only not-a-number.
C5_FixedCapacityPadding ==
    pc = "gathered" =>
        LET rois == data_vars.roi_data
            vectors == data_vars.vector_data
            n == Len(roi_source.x)
            m == Len(vector_source.xs)
        IN  /\ n <= TableRows /\ m <= TableRows
            /\ Len(rois) = 50 /\ Len(vectors) = 50
            /\ \A i \in 1..50 :
                  /\ Len(rois[i]) = 4
                  /\ i <= n => rois[i] = <<roi_source.x[i], roi_source.y[i],
                                           roi_source.width[i], roi_source.height[i]>>
                  /\ i > n => \A c \in 1..4 : rois[i][c] = NaN
                  /\ Len(vectors[i]) = 4
                  /\ i <= m => vectors[i] = <<vector_source.xs[i][1], vector_source.xs[i][2],
                                              vector_source.ys[i][1], vector_source.ys[i][2]>>
                  /\ i > m => \A c \in 1..4 : vectors[i][c] = NaN

\* tables were gathered from a full ROI selection and a partial vector selection
C5_Witness ==
    /\ pc = "gathered"
    /\ Len(roi_source.x) = 50
    /\ Len(vector_source.xs) \in 1..49

NoTifUnder(base) ==
    \A i \in 1..Len(OsWalk(base)) : ~EndsWith(OsWalk(base)[i].name, IMAGE_EXT)

\* C6: when the base-directory input changes to a value that is no
\* directory, or to a directory with no '.tif' file in its tree, the options
\* become ['---'] and no image is loaded; otherwise the options become the
\* files' paths with the base directory removed, and the first one is selected.
C6_PlaceholderFallback ==
    [][base_dir_input' # base_dir_input =>
          IF ~(base_dir_input' \in DOMAIN fs) \/ NoTifUnder(base_dir_input')
          THEN /\ image_select_options' = <<Placeholder>>
               /\ raw_source' = raw_source
               /\ image_select_value' = image_select_value
          ELSE LET tifs == SelectSeq(OsWalk(base_dir_input'), HasExt)
               IN  /\ Len(image_select_options') = Len(tifs)
                   /\ \A i \in 1..Len(tifs) :
                         base_dir_input' \o image_select_options'[i]
                             = PathJoin(tifs[i].root, tifs[i].name)
                   /\ image_select_value' = image_select_options'[1]]_vars

\* the input was changed to a directory without recordings
C6_Witness ==
    /\ base_dir_input = PathD
    /\ NoTifUnder(PathD)
    /\ image_select_options = <<Placeholder>>

AllNumbers(entry) ==
    /\ \A i \in 1..Len(entry.rois.x) :
          NaN \notin {entry.rois.x[i], entry.rois.y[i],
                      entry.rois.width[i], entry.rois.height[i]}
    /\ \A i \in 1..Len(entry.vectors.xs) :
          NaN \notin {entry.vectors.xs[i][1], entry.vectors.xs[i][2],
                      entry.vectors.ys[i][1], entry.vectors.ys[i][2]}

\* C7: displaying an image whose path was saved with a selection of
\* numbers restores that ROI selection and that vector selection, item by
\* item and in order; displaying an image whose path has no record, or with
\* no dataset file, yields empty selections.
C7_SaveReloadRoundTrip ==
    [][(/\ image_select_value' # image_select_value
        /\ get_full_path(base_dir_input', image_select_value') # NoPath) =>
          LET path == get_full_path(base_dir_input', image_select_value')
              entries == {e \in saved[get_db_path(base_dir_input')] : e.path = path}
          IN  /\ \A e \in entries :
                    AllNumbers(e) => /\ roi_source' = e.rois
                                     /\ vector_source' = e.vectors
              /\ entries = {} => /\ roi_source' = NoRois
                                 /\ vector_source' = NoVectors]_vars

\* a full ROI selection and a vector selection were drawn from the dataset file
C7_Witness ==
    /\ outcome = "restored"
    /\ Len(roi_source.x) = 50
    /\ Len(vector_source.xs) > 0

\* C8: whenever the 2D-projection toggle is active (and a recording with a
\* time axis is loaded), the time slider is disabled and the displayed
\* image is the maximum-intensity projection of the current image.
C8_ProjectionWhileToggled ==
    (toggle_2d /\ HasImage /\ IsStack(get_current_image)) =>
        /\ time_slider.disabled
        /\ image_source = <<MaxOverTime(get_current_image.data,
                                        Len(get_current_image.data))>>

GatherFails ==
    \/ line_rate_input = Placeholder
    \/ frame_rate_input = Placeholder
    \/ Len(roi_source.x) > 50
    \/ Len(vector_source.xs) > 50

\* C9: while the in-memory data cannot be gathered (a rate readout is
\* '---', or a selection exceeds 50 items), no step of save() touches a
\* dataset file: the file is neither deleted nor modified.
C9_FailedGatherLeavesFile ==
    [][GatherFails => (disk' = disk /\ pc' = "idle" /\ pc = "idle")]_vars

\* a save of 51 ROIs has just raised, over an existing dataset file
C9_Witness ==
    /\ outcome = "raised"
    /\ Len(roi_source.x) > 50
    /\ line_rate_input # Placeholder
    /\ IsDir(base_dir_input)
    /\ disk[SaveDbPath].exists

\* C10: every option of the image picker resolves to the file it was
\* derived from: get_full_path(r) is the base directory followed by r.
C10_OptionResolvesToItsFile ==
    \A i \in 1..Len(image_select_options) :
        image_select_options[i] # Placeholder =>
            get_full_path(base_dir_input, image_select_options[i])
                = base_dir_input \o image_select_options[i]

====
